---- MODULE Spec2Model ----
(***************************************************************************)
(* The Minesweeper game engine of src/src/core.rs (struct Game).           *)
(*                                                                         *)
(* game is the Game value: a record of its four fields.  last names the    *)
(* last public call.  A method of Game is an operator from the Game it is  *)
(* called on (self) and its argument to the outcome of the call: the       *)
(* variant returned (res) and the Game after the call (game).  Every       *)
(* public method is one action that applies the operator; reveal includes  *)
(* the whole flood fill and the win accounting that follows it.            *)
(*                                                                         *)
(* mines is a Vec<Coords> that the code reads only through contains, len   *)
(* and iter().filter().count(): none of them observes the order of the     *)
(* entries, so the Vec is modelled as a bag (entries with multiplicity).   *)
(*                                                                         *)
(* call holds the locals of the function that is running when a call is    *)
(* followed step by step: the loop of generate_random_mines inside         *)
(* Game::new, and the loop of floodfill_reveal inside Game::reveal.  It is *)
(* NoCall whenever no such loop is running, and so in every state of the   *)
(* specifications that take each public call as one step.                  *)
(***************************************************************************)
EXTENDS Integers, Sequences, FiniteSets, Bags

VARIABLES game, last, call

vars == <<game, last, call>>

(***************************************************************************)
(* Bounds of the exploration.                                              *)
(***************************************************************************)
\* boards have at most MaxCells cells (width * height <= MaxCells)
MaxCells == 4

\* the number of values of the u8 payload of CellState::Revealed
U8Range == 256

(***************************************************************************)
(* Data: Coords, CellState.                                                *)
(***************************************************************************)
\* enum CellState { Hidden, Flagged, Revealed(u8) }
Hidden == [tag |-> "Hidden"]
Flagged == [tag |-> "Flagged"]
Revealed(n) == [tag |-> "Revealed", n |-> n]

\* faulty variant: the pattern written as CellState::Revealed(0)
matches_Revealed_zero(c) == c.tag = "Revealed" /\ c.n = 0

\* the pattern CellState::Revealed(_) of toggle_flag
matches_Revealed(c) == c.tag = "Revealed"

\* the (width, height) pairs a game is constructed with
Sizes == {wh \in (0..MaxCells) \X (0..MaxCells) : wh[1] * wh[2] <= MaxCells}

\* arguments of the public calls: type Coords = (usize, usize), (column, row):
\* every coordinate of the field, and past its edges the first coordinate
\* right of it, the first below it and the one diagonally past its corner
Coords ==
    ((0..(game.width - 1)) \X (0..(game.height - 1)))
        \cup {<<game.width, 0>>, <<0, game.height>>, <<game.width, game.height>>}

Min(a, b) == IF a < b THEN a ELSE b

\* usize::abs_diff
abs_diff(a, b) == IF a < b THEN b - a ELSE a - b

\* usize::saturating_sub(1)
saturating_sub1(a) == IF a = 0 THEN 0 ELSE a - 1

\* usize::saturating_add(1); the argument is a coordinate of the field, far
\* below usize::MAX
saturating_add1(a) == a + 1

(***************************************************************************)
(* Private helpers of Game.                                                *)
(***************************************************************************)
\* faulty variant: the column compared with width - 1
InBounds_short_row(self, coords) ==
    coords[1] < self.width - 1 /\ coords[2] < self.height

\* Game::index returns Ok
InBounds(self, coords) == coords[1] < self.width /\ coords[2] < self.height

\* Game::index, the Ok value
index(self, coords) == self.width * coords[2] + coords[1]

\* faulty variant: column and row exchanged in the lookup
is_mine_at_swapped(self, at) == BagIn(<<at[2], at[1]>>, self.mines)

\* Game::is_mine_at: self.mines.contains(&at)
is_mine_at(self, at) == BagIn(at, self.mines)

\* faulty variant: the neighbours already revealed are counted, not the mines
count_neighbor_mines_revealed(self, at) ==
    Cardinality({i \in DOMAIN self.cells :
                    /\ self.cells[i].tag = "Revealed"
                    /\ abs_diff(i % self.width, at[1]) <= 1
                    /\ abs_diff(i \div self.width, at[2]) <= 1})

\* faulty variant: the diagonal neighbours left out of the count
count_neighbor_mines_orthogonal(self, at) ==
    LET near == {m \in BagToSet(self.mines) :
                    abs_diff(m[1], at[1]) + abs_diff(m[2], at[2]) <= 1}
    IN  BagCardinality([m \in near |-> CopiesIn(m, self.mines)])

\* Game::count_neighbor_mines: the entries of mines within distance 1 in both
\* axes (an entry equal to at itself is counted too)
count_neighbor_mines(self, at) ==
    LET near == {m \in BagToSet(self.mines) :
                    /\ abs_diff(m[1], at[1]) <= 1
                    /\ abs_diff(m[2], at[2]) <= 1}
    IN  BagCardinality([m \in near |-> CopiesIn(m, self.mines)])

\* Game::mine_count
mine_count(self) == BagCardinality(self.mines)

\* faulty variant: the coordinates are not held back by .min(width - 1) and
\* .min(height - 1)
Pushes_unclamped(self, x, y) ==
    LET right == saturating_add1(x)
        left == saturating_sub1(x)
        down == saturating_add1(y)
        up == saturating_sub1(y)
    IN  << <<right, y>>, <<left, y>>, <<x, down>>, <<x, up>>,
           <<right, down>>, <<left, down>>, <<left, down>>, <<left, up>> >>

\* faulty variant: every saturating_sub written as saturating_add
Pushes_add_only(self, x, y) ==
    LET right == Min(saturating_add1(x), self.width - 1)
        down == Min(saturating_add1(y), self.height - 1)
    IN  << <<right, y>>, <<right, y>>, <<x, down>>, <<x, down>>,
           <<right, down>>, <<right, down>>, <<right, down>>, <<right, down>> >>

\* the eight pushes of floodfill_reveal for a cell with no mine around it, in
\* source order
Pushes(self, x, y) ==
    LET right == Min(saturating_add1(x), self.width - 1)
        left == Min(saturating_sub1(x), self.width - 1)
        down == Min(saturating_add1(y), self.height - 1)
        up == Min(saturating_sub1(y), self.height - 1)
    IN  << <<right, y>>, <<left, y>>, <<x, down>>, <<x, up>>,
           <<right, down>>, <<left, down>>, <<left, down>>, <<left, up>> >>

\* faulty variant: a Flagged cell is revealed and expanded as well
Expandable_not_revealed(c) == c.tag # "Revealed"

\* the match in the loop of floodfill_reveal: only a Hidden cell is revealed
\* and expanded
Expandable(c) == c = Hidden

\* the while loop of floodfill_reveal: self.cells is rewritten in place,
\* to_reveal is the Vec used as a stack (pop takes the last element)
RECURSIVE floodfill_loop(_, _)
floodfill_loop(self, to_reveal) ==
    IF Len(to_reveal) = 0
    THEN self
    ELSE LET at == to_reveal[Len(to_reveal)]
             rest == SubSeq(to_reveal, 1, Len(to_reveal) - 1)
         IN  IF Expandable(self.cells[index(self, at)])
             THEN LET neighbor_mines == count_neighbor_mines(self, at)
                      shown == [self EXCEPT !.cells[index(self, at)] =
                                               Revealed(neighbor_mines % U8Range)]
                  IN  IF neighbor_mines = 0
                      THEN floodfill_loop(shown, rest \o Pushes(self, at[1], at[2]))
                      ELSE floodfill_loop(shown, rest)
             ELSE floodfill_loop(self, rest)

\* Game::floodfill_reveal
floodfill_reveal(self, start) == floodfill_loop(self, <<start>>)

\* faulty variant: Flagged cells left out of the remaining count
RevealOutcome_hidden_only(self) ==
    IF Cardinality({i \in DOMAIN self.cells : self.cells[i] = Hidden})
          = mine_count(self)
    THEN "Win" ELSE "Continue"

\* the tail of Game::reveal: the cells still Hidden or Flagged against
\* mine_count
RevealOutcome(self) ==
    LET remaining_not_revealed ==
            Cardinality({i \in DOMAIN self.cells :
                            self.cells[i] = Hidden \/ self.cells[i] = Flagged})
    IN  IF remaining_not_revealed = mine_count(self) THEN "Win" ELSE "Continue"

\* faulty variant: the flag is set but never cleared
Toggled_set_only(c) == Flagged

\* the arms of the match of Game::toggle_flag that write the cell
Toggled(c) == IF c = Flagged THEN Hidden ELSE Flagged

(***************************************************************************)
(* Construction.                                                           *)
(***************************************************************************)
\* Game::empty(field_width, field_height)
empty(field_width, field_height) ==
    [width |-> field_width,
     height |-> field_height,
     mines |-> EmptyBag,
     cells |-> [i \in 0..(field_width * field_height - 1) |-> Hidden]]

\* no loop of generate_random_mines or floodfill_reveal is running
NoCall == [fn |-> "none"]

Init ==
    \E wh \in Sizes :
        /\ game = empty(wh[1], wh[2])
        /\ last = "empty"
        /\ call = NoCall

(***************************************************************************)
(* The public methods: res is the variant returned, game the Game after    *)
(* the call.                                                               *)
(***************************************************************************)
\* Game::place_mine
place_mine(self, at) ==
    IF ~InBounds(self, at) THEN [res |-> "InvalidCoords", game |-> self]
    ELSE IF is_mine_at(self, at) THEN [res |-> "MineAlreadyAt", game |-> self]
    ELSE [res |-> "Ok",
          game |-> [self EXCEPT !.mines = self.mines (+) SetToBag({at})]]

\* Game::toggle_flag
toggle_flag(self, at) ==
    IF ~InBounds(self, at) THEN [res |-> "InvalidCoords", game |-> self]
    ELSE IF matches_Revealed(self.cells[index(self, at)])
    THEN [res |-> "CellRevealed", game |-> self]
    ELSE [res |-> "Ok",
          game |-> [self EXCEPT !.cells[index(self, at)] =
                                   Toggled(self.cells[index(self, at)])]]

\* Game::reveal
reveal(self, at) ==
    IF ~InBounds(self, at) THEN [res |-> "InvalidCoords", game |-> self]
    ELSE IF is_mine_at(self, at) THEN [res |-> "GameOver", game |-> self]
    ELSE LET filled == floodfill_reveal(self, at)
         IN  [res |-> RevealOutcome(filled), game |-> filled]

\* Game::cell_at (takes &self: the Game is only read)
cell_at(self, at) ==
    IF ~InBounds(self, at) THEN [res |-> "InvalidCoords"]
    ELSE [res |-> "Ok", cell |-> self.cells[index(self, at)]]

PlaceMine(at) ==
    /\ game' = place_mine(game, at).game
    /\ last' = "place_mine"
    /\ call' = NoCall

ToggleFlag(at) ==
    /\ game' = toggle_flag(game, at).game
    /\ last' = "toggle_flag"
    /\ call' = NoCall

Reveal(at) ==
    /\ game' = reveal(game, at).game
    /\ last' = "reveal"
    /\ call' = NoCall

CellAt(at) ==
    /\ last' = "cell_at"
    /\ call' = NoCall
    /\ UNCHANGED game

Next ==
    \/ \E at \in Coords : PlaceMine(at)
    \/ \E at \in Coords : ToggleFlag(at)
    \/ \E at \in Coords : Reveal(at)
    \/ \E at \in Coords : CellAt(at)

Spec == Init /\ [][Next]_vars

(***************************************************************************)
(* The lifecycle in which every mine is placed before play begins (as in   *)
(* src/src/main.rs, where Game::new places them, and in the tests): a mine *)
(* is placed only while no cell has been revealed.  The states before the  *)
(* first reveal are those Game::new and place_mine can produce.            *)
(***************************************************************************)
NothingRevealed == \A i \in DOMAIN game.cells : game.cells[i].tag # "Revealed"

PlaceMineBeforePlay(at) == NothingRevealed /\ PlaceMine(at)

NextPlacedFirst ==
    \/ \E at \in Coords : PlaceMineBeforePlay(at)
    \/ \E at \in Coords : ToggleFlag(at)
    \/ \E at \in Coords : Reveal(at)
    \/ \E at \in Coords : CellAt(at)

SpecPlacedFirst == Init /\ [][NextPlacedFirst]_vars

(***************************************************************************)
(* Game::new followed step by step: the test against the size of the       *)
(* field, then the loop of generate_random_mines, one draw of the random   *)
(* number generator per step.  While Game::new runs there is no Game yet;  *)
(* once it has returned Ok (or Game::empty has returned) the public calls  *)
(* follow, each as one step.                                               *)
(***************************************************************************)
\* the mine_count arguments of Game::new: up to one more than the largest field
MineCounts == 0..(MaxCells + 1)

\* the value of game while Game::new has not returned one
NoGame == [none |-> TRUE]

\* faulty variant: a field filled with mines is refused as well
TooManyMines_or_full(field_width, field_height, count) ==
    count >= field_width * field_height

\* the test of Game::new (on sizes whose product fits a usize)
TooManyMines(field_width, field_height, count) ==
    count > field_width * field_height

\* faulty variant: no entry is ever found
contains_never(generated, new_coords) == FALSE

\* Vec::contains on the Vec of generate_random_mines
contains(generated, new_coords) == BagIn(new_coords, generated)

\* Game::new is called, or Game::empty has returned
InitNew ==
    \/ Init
    \/ \E wh \in Sizes, count \in MineCounts :
          /\ game = NoGame
          /\ last = "new"
          /\ call = [fn |-> "new", field_width |-> wh[1], field_height |-> wh[2],
                     mine_count |-> count, res |-> "pending"]

NewPending == call.fn = "new" /\ call.res = "pending"

\* Game::new returns Err(TooManyMines)
NewTooManyMines ==
    /\ NewPending
    /\ TooManyMines(call.field_width, call.field_height, call.mine_count)
    /\ call' = [call EXCEPT !.res = "TooManyMines"]
    /\ UNCHANGED <<game, last>>

\* Game::new calls generate_random_mines, which starts with an empty Vec
NewGenerate ==
    /\ NewPending
    /\ ~TooManyMines(call.field_width, call.field_height, call.mine_count)
    /\ call' = [fn |-> "generate_random_mines", width |-> call.field_width,
                height |-> call.field_height, count |-> call.mine_count,
                generated |-> EmptyBag]
    /\ UNCHANGED <<game, last>>

\* one turn of the loop of generate_random_mines: a coordinate is drawn and
\* pushed unless the Vec contains it
GenerateStep ==
    /\ call.fn = "generate_random_mines"
    /\ BagCardinality(call.generated) < call.count
    /\ \E new_coords \in (0..(call.width - 1)) \X (0..(call.height - 1)) :
          call' = IF ~contains(call.generated, new_coords)
                  THEN [call EXCEPT !.generated = @ (+) SetToBag({new_coords})]
                  ELSE call
    /\ UNCHANGED <<game, last>>

\* the loop of generate_random_mines ends and Game::new returns Ok(Game)
NewOk ==
    /\ call.fn = "generate_random_mines"
    /\ ~(BagCardinality(call.generated) < call.count)
    /\ game' = [width |-> call.width,
                height |-> call.height,
                mines |-> call.generated,
                cells |-> [i \in 0..(call.width * call.height - 1) |-> Hidden]]
    /\ call' = [fn |-> "new", field_width |-> call.width, field_height |-> call.height,
                mine_count |-> call.count, res |-> "Ok"]
    /\ UNCHANGED last

\* a Game exists: Game::empty or Game::new has returned it
Constructed == call = NoCall \/ (call.fn = "new" /\ call.res = "Ok")

NextNew ==
    \/ NewTooManyMines
    \/ NewGenerate
    \/ GenerateStep
    \/ NewOk
    \/ Constructed /\ \E at \in Coords : PlaceMine(at)
    \/ Constructed /\ \E at \in Coords : ToggleFlag(at)
    \/ Constructed /\ \E at \in Coords : Reveal(at)
    \/ Constructed /\ \E at \in Coords : CellAt(at)

SpecNew == InitNew /\ [][NextNew]_vars

(***************************************************************************)
(* Game::reveal followed step by step: the tests of reveal, then the while *)
(* loop of floodfill_reveal, one turn per step, then its return.  call     *)
(* holds the local of floodfill_reveal, to_reveal, and for the properties  *)
(* by_stack: what this call of reveal returns and leaves as the Game when  *)
(* the whole loop runs on a stack, as written.                             *)
(* The other public calls are one step each and run between reveals.       *)
(***************************************************************************)
Idle == call.fn = "none"

Filling == call.fn = "floodfill_reveal"

\* faulty variant: the entry is read and left on the list
Without_kept(to_reveal, i) == to_reveal

\* to_reveal after entry i has been taken from it (Vec::pop takes the last)
Without(to_reveal, i) ==
    SubSeq(to_reveal, 1, i - 1) \o SubSeq(to_reveal, i + 1, Len(to_reveal))

\* Game::reveal up to its call of floodfill_reveal, which starts with
\* to_reveal holding start alone; off the field or on a mine reveal returns
\* at once
RevealCall(at) ==
    /\ Idle
    /\ last' = "reveal"
    /\ call' = IF InBounds(game, at) /\ ~is_mine_at(game, at)
               THEN [fn |-> "floodfill_reveal", to_reveal |-> <<at>>,
                     by_stack |-> reveal(game, at)]
               ELSE NoCall
    /\ UNCHANGED game

\* one turn of the while loop of floodfill_reveal on entry i of to_reveal: the
\* Game and the work list after it
floodfill_turn(self, to_reveal, i) ==
    LET at == to_reveal[i]
        rest == Without(to_reveal, i)
    IN  IF Expandable(self.cells[index(self, at)])
        THEN LET neighbor_mines == count_neighbor_mines(self, at)
             IN  [game |-> [self EXCEPT !.cells[index(self, at)] =
                                           Revealed(neighbor_mines % U8Range)],
                  to_reveal |-> IF neighbor_mines = 0
                                THEN rest \o Pushes(self, at[1], at[2])
                                ELSE rest]
        ELSE [game |-> self, to_reveal |-> rest]

\* the turn the code takes: to_reveal.pop() is the last entry
FloodfillPop ==
    /\ Filling
    /\ Len(call.to_reveal) > 0
    /\ LET turn == floodfill_turn(game, call.to_reveal, Len(call.to_reveal))
       IN  /\ game' = turn.game
           /\ call' = [call EXCEPT !.to_reveal = turn.to_reveal]
    /\ UNCHANGED last

\* the entries of to_reveal in the order of their cells
RECURSIVE InCellOrder(_, _, _)
InCellOrder(self, to_reveal, c) ==
    IF c >= self.width * self.height
    THEN <<>>
    ELSE SelectSeq(to_reveal, LAMBDA at : index(self, at) = c)
            \o InCellOrder(self, to_reveal, c + 1)

\* the positions of to_reveal that hold the first entry for their coordinate
FirstEntries(to_reveal) ==
    {i \in 1..Len(to_reveal) : \A j \in 1..(i - 1) : to_reveal[j] # to_reveal[i]}

\* a turn on any entry: a work list taken in an order other than the stack's.
\* When any entry may be taken next, the position of an entry in the list
\* has no effect, so the list is kept in the order of the cells and, of the
\* entries for one coordinate, the first is the one taken.
FloodfillTakeAny ==
    /\ Filling
    /\ \E i \in FirstEntries(call.to_reveal) :
          LET turn == floodfill_turn(game, call.to_reveal, i)
          IN  /\ game' = turn.game
              /\ call' = [call EXCEPT !.to_reveal =
                                         InCellOrder(game, turn.to_reveal, 0)]
    /\ UNCHANGED last

\* to_reveal.len() > 0 is false: floodfill_reveal returns and reveal answers
\* Win or Continue
FloodfillReturn ==
    /\ Filling
    /\ Len(call.to_reveal) = 0
    /\ call' = NoCall
    /\ UNCHANGED <<game, last>>

NextFill ==
    \/ Idle /\ \E at \in Coords : PlaceMine(at)
    \/ Idle /\ \E at \in Coords : ToggleFlag(at)
    \/ Idle /\ \E at \in Coords : CellAt(at)
    \/ \E at \in Coords : RevealCall(at)
    \/ FloodfillPop
    \/ FloodfillReturn

\* the loop is straight-line code of one thread: a turn that can be taken is
\* taken
SpecFill ==
    /\ Init
    /\ [][NextFill]_vars
    /\ WF_vars(FloodfillPop)
    /\ WF_vars(FloodfillReturn)

NextAnyOrder ==
    \/ Idle /\ \E at \in Coords : PlaceMine(at)
    \/ Idle /\ \E at \in Coords : ToggleFlag(at)
    \/ Idle /\ \E at \in Coords : CellAt(at)
    \/ \E at \in Coords : RevealCall(at)
    \/ FloodfillTakeAny
    \/ FloodfillReturn

SpecAnyOrder == Init /\ [][NextAnyOrder]_vars

(***************************************************************************)
(* Vocabulary of the properties, written without the helpers of Game.      *)
(***************************************************************************)
\* the coordinates of the field
Board == (0..(game.width - 1)) \X (0..(game.height - 1))

\* the visibility of coordinate p in Game g
Cell(g, p) == g.cells[g.width * p[2] + p[1]]

IsRevealedAt(g, p) == Cell(g, p).tag = "Revealed"

MineOn(p) == CopiesIn(p, game.mines) > 0

Chebyshev(p, q) ==
    LET dx == IF p[1] < q[1] THEN q[1] - p[1] ELSE p[1] - q[1]
        dy == IF p[2] < q[2] THEN q[2] - p[2] ELSE p[2] - q[2]
    IN  IF dx < dy THEN dy ELSE dx

\* the coordinates that are Hidden in game and Revealed in Game g
NewlyRevealed(g) == {p \in Board : Cell(game, p) = Hidden /\ IsRevealedAt(g, p)}

AllSafeRevealed(g) == \A p \in Board : MineOn(p) \/ IsRevealedAt(g, p)

\* C1: when every mine was placed before any cell was revealed, a reveal of a
\* coordinate of the field that holds no mine returns Win if, after the call,
\* every coordinate without a mine is Revealed, and Continue otherwise.
C1_WinIffAllSafeRevealed ==
    \A at \in Board :
        LET outcome == reveal(game, at)
        IN  ~MineOn(at)
            => outcome.res =
                 (IF AllSafeRevealed(outcome.game) THEN "Win" ELSE "Continue")

\* a reveal has won a board of at least three cells on which a mine is flagged
C1_Witness ==
    /\ last = "reveal"
    /\ game.width * game.height >= 3
    /\ \E p \in Board : MineOn(p) /\ Cell(game, p) = Flagged
    /\ \E at \in Board : ~MineOn(at) /\ reveal(game, at).res = "Win"

\* C2: reveal of a coordinate of the field that holds a mine returns GameOver
\* and changes neither any cell nor the mines.
C2_MineRevealIsGameOver ==
    \A at \in Board :
        LET outcome == reveal(game, at)
        IN  MineOn(at)
            => /\ outcome.res = "GameOver"
               /\ outcome.game.cells = game.cells
               /\ outcome.game.mines = game.mines

\* after a reveal, a mine lies under a flag and another under a revealed cell
C2_Witness ==
    /\ last = "reveal"
    /\ \E p \in Board :
         MineOn(p) /\ Cell(game, p) = Flagged /\ reveal(game, p).res = "GameOver"
    /\ \E p \in Board :
         MineOn(p) /\ IsRevealedAt(game, p) /\ reveal(game, p).res = "GameOver"

\* C3: after a reveal, every neighbour (Chebyshev distance 1, on the field) of
\* a cell the call changed from Hidden to Revealed(0) is Revealed, or is
\* Flagged and was Flagged before the call.
C3_ZeroCascadeComplete ==
    \A at \in Coords :
        LET after == reveal(game, at).game
        IN  \A p \in NewlyRevealed(after) :
              Cell(after, p) = Revealed(0)
              => \A q \in Board :
                   Chebyshev(p, q) = 1
                   => \/ IsRevealedAt(after, q)
                      \/ Cell(game, q) = Flagged /\ Cell(after, q) = Flagged

\* C4: a cell that a reveal changes from Hidden to Revealed(n) has exactly n
\* coordinates of the field at Chebyshev distance 1 that hold a mine, and
\* 0 <= n <= 8.
C4_RevealedCountIsNeighborMines ==
    \A at \in Coords :
        LET after == reveal(game, at).game
        IN  \A p \in NewlyRevealed(after) :
              /\ Cell(after, p).n =
                   Cardinality({q \in Board : Chebyshev(p, q) = 1 /\ MineOn(q)})
              /\ Cell(after, p).n \in 0..8

\* a reveal has shown a count of two or more on a cell with a mine diagonally
\* next to it, and a hidden cell is left whose reveal will show such a count
C4_Witness ==
    /\ last = "reveal"
    /\ \E p, q \in Board :
         /\ IsRevealedAt(game, p) /\ Cell(game, p).n >= 2
         /\ MineOn(q) /\ q[1] # p[1] /\ q[2] # p[2] /\ Chebyshev(p, q) = 1
    /\ \E at \in Board :
         \E p \in NewlyRevealed(reveal(game, at).game) :
           Cell(reveal(game, at).game, p).n >= 2

\* C5: a cell that is Flagged before a reveal is Flagged after it, and the
\* cascade does not pass through it: every cell the call reveals, other than
\* the start, is a neighbour of a cell the call changed from Hidden to
\* Revealed(0).
C5_FloodFillRespectsFlags ==
    \A at \in Coords :
        LET after == reveal(game, at).game
        IN  /\ \A p \in Board : Cell(game, p) = Flagged => Cell(after, p) = Flagged
            /\ \A q \in NewlyRevealed(after) \ {at} :
                 \E p \in NewlyRevealed(after) :
                   Chebyshev(p, q) = 1 /\ Cell(after, p) = Revealed(0)

\* a reveal on a board without mines stopped at a flag: a cell with no mine
\* around it is revealed, its flagged neighbour is still flagged and the hidden
\* cell behind the flag is still hidden
C5_Witness ==
    /\ last = "reveal"
    /\ game.mines = EmptyBag
    /\ \E p, q, r \in Board :
         /\ Cell(game, p) = Flagged
         /\ Chebyshev(p, q) = 1 /\ Cell(game, q) = Revealed(0)
         /\ Chebyshev(p, r) = 1 /\ Cell(game, r) = Hidden
         /\ Chebyshev(q, r) > 1

\* C6: a cell that holds Revealed(n) holds the same Revealed(n) after every
\* call.
C6_RevealedIsTerminal ==
    [][\A i \in DOMAIN game.cells :
          game.cells[i].tag = "Revealed" => game'.cells[i] = game.cells[i]]_vars

\* a mine was placed on a revealed cell, and the count shown there is stale
C6_Witness ==
    /\ last = "place_mine"
    /\ \E p \in Board :
         /\ MineOn(p) /\ IsRevealedAt(game, p)
         /\ Cell(game, p).n #
              Cardinality({q \in Board : Chebyshev(p, q) = 1 /\ MineOn(q)})

\* C7: place_mine, toggle_flag, reveal and cell_at return InvalidCoords
\* exactly for the coordinates with column >= width or row >= height, and
\* then change neither the mines nor any cell.
C7_InvalidCoordsIffOutside ==
    \A at \in Coords :
        LET outside == at[1] >= game.width \/ at[2] >= game.height
            placed == place_mine(game, at)
            toggled == toggle_flag(game, at)
            revealed == reveal(game, at)
        IN  /\ (placed.res = "InvalidCoords") <=> outside
            /\ (toggled.res = "InvalidCoords") <=> outside
            /\ (revealed.res = "InvalidCoords") <=> outside
            /\ (cell_at(game, at).res = "InvalidCoords") <=> outside
            /\ outside => /\ placed.game = game
                          /\ toggled.game = game
                          /\ revealed.game = game

\* a board in play, with a mine, a flag and a revealed cell, on which calls
\* with coordinates past the edge are refused
C7_Witness ==
    /\ last \in {"place_mine", "toggle_flag", "reveal", "cell_at"}
    /\ \E p \in Board : IsRevealedAt(game, p)
    /\ \E p \in Board : Cell(game, p) = Flagged
    /\ game.mines # EmptyBag
    /\ reveal(game, <<game.width, 0>>).res = "InvalidCoords"
    /\ toggle_flag(game, <<0, game.height>>).res = "InvalidCoords"

\* C8: place_mine on a coordinate of the field returns Ok exactly when the
\* coordinate holds no mine; then the mines gain that coordinate once,
\* mine_count grows by one and no cell changes; otherwise it returns
\* MineAlreadyAt and changes nothing.
C8_PlaceMineContract ==
    \A at \in Board :
        LET outcome == place_mine(game, at)
        IN  IF ~MineOn(at)
            THEN /\ outcome.res = "Ok"
                 /\ outcome.game.mines = game.mines (+) SetToBag({at})
                 /\ CopiesIn(at, outcome.game.mines) = 1
                 /\ BagCardinality(outcome.game.mines) = BagCardinality(game.mines) + 1
                 /\ outcome.game.cells = game.cells
            ELSE /\ outcome.res = "MineAlreadyAt"
                 /\ outcome.game.mines = game.mines
                 /\ outcome.game.cells = game.cells

\* a mine was placed, and placing it again is refused
C8_Witness ==
    /\ last = "place_mine"
    /\ BagCardinality(game.mines) >= 2
    /\ \E at \in Board : place_mine(game, at).res = "MineAlreadyAt"
    /\ \E at \in Board : place_mine(game, at).res = "Ok"

\* C9: toggle_flag on a Hidden cell of the field makes it Flagged and on a
\* Flagged cell makes it Hidden, changes no other cell and no mine; two
\* toggle_flag calls in a row on a cell that is not Revealed give back the
\* Game they started from.
C9_ToggleFlagInvolution ==
    \A at \in Board :
        ~IsRevealedAt(game, at)
        => LET once == toggle_flag(game, at)
               twice == toggle_flag(once.game, at)
           IN  /\ once.res = "Ok"
               /\ Cell(once.game, at) =
                    (IF Cell(game, at) = Hidden THEN Flagged ELSE Hidden)
               /\ \A p \in Board \ {at} : Cell(once.game, p) = Cell(game, p)
               /\ once.game.mines = game.mines
               /\ twice.res = "Ok"
               /\ twice.game = game

\* a flag was toggled on a board with a flagged, a hidden and a revealed cell
C9_Witness ==
    /\ last = "toggle_flag"
    /\ \E p \in Board : Cell(game, p) = Flagged
    /\ \E p \in Board : Cell(game, p) = Hidden
    /\ \E p \in Board : IsRevealedAt(game, p)

\* C10: toggle_flag on a cell of the field that is Revealed returns
\* CellRevealed and changes neither any cell nor the mines.
C10_ToggleRevealedRefused ==
    \A at \in Board :
        LET outcome == toggle_flag(game, at)
        IN  IsRevealedAt(game, at)
            => /\ outcome.res = "CellRevealed"
               /\ outcome.game.cells = game.cells
               /\ outcome.game.mines = game.mines

\* toggle_flag ran on a board with a revealed count above zero, where it is
\* refused
C10_Witness ==
    /\ last = "toggle_flag"
    /\ \E p \in Board :
         /\ IsRevealedAt(game, p) /\ Cell(game, p).n >= 1
         /\ toggle_flag(game, p).res = "CellRevealed"

\* C11: Game::new(width, height, mine_count) returns TooManyMines exactly when
\* mine_count > width * height; otherwise it returns a Game of that width and
\* height with mine_count mines, each on a coordinate of the field and no two
\* on the same one, and with width * height cells that are all Hidden.
C11_NewContract ==
    (call.fn = "new" /\ call.res # "pending")
    => LET size == call.field_width * call.field_height
       IN  /\ (call.res = "TooManyMines") <=> (call.mine_count > size)
           /\ (call.res = "Ok") <=> (call.mine_count <= size)
           /\ last = "new" /\ call.res = "Ok"
              => /\ game.width = call.field_width
                 /\ game.height = call.field_height
                 /\ BagCardinality(game.mines) = call.mine_count
                 /\ \A m \in BagToSet(game.mines) :
                      /\ CopiesIn(m, game.mines) = 1
                      /\ m[1] < call.field_width /\ m[2] < call.field_height
                 /\ DOMAIN game.cells = 0..(size - 1)
                 /\ \A i \in DOMAIN game.cells : game.cells[i] = [tag |-> "Hidden"]

\* Game::new has returned a field of three or more cells with a mine on every
\* one of them
C11_Witness ==
    /\ last = "new"
    /\ call.fn = "new" /\ call.res = "Ok"
    /\ call.mine_count = call.field_width * call.field_height
    /\ call.mine_count >= 3
    /\ BagCardinality(game.mines) = call.mine_count

\* C12 as stated: on a board with no mine and no Flagged cell, a reveal of any
\* coordinate of the field leaves every cell Revealed(0) and returns Win.
C12_MineFreeRevealClearsAll ==
    \A at \in Board :
        LET outcome == reveal(game, at)
        IN  (/\ BagToSet(game.mines) = {}
             /\ \A p \in Board : Cell(game, p).tag # "Flagged")
            => /\ \A p \in Board : Cell(outcome.game, p) = [tag |-> "Revealed", n |-> 0]
               /\ outcome.res = "Win"

\* C12 amended: on a board with no mine on which every cell is Hidden, a reveal
\* of any coordinate of the field leaves every cell Revealed(0) and returns
\* Win.
C12_FreshMineFreeRevealClearsAll ==
    \A at \in Board :
        LET outcome == reveal(game, at)
        IN  (/\ BagToSet(game.mines) = {}
             /\ \A p \in Board : Cell(game, p).tag = "Hidden")
            => /\ \A p \in Board : Cell(outcome.game, p) = [tag |-> "Revealed", n |-> 0]
               /\ outcome.res = "Win"

\* a reveal has cleared a board of three or more cells without mines in one
\* call: every cell is Revealed(0) and a flag was never needed
C12_Witness ==
    /\ last = "reveal"
    /\ game.width * game.height >= 3
    /\ BagToSet(game.mines) = {}
    /\ \A p \in Board : Cell(game, p) = [tag |-> "Revealed", n |-> 0]
    /\ reveal(empty(game.width, game.height), <<game.width - 1, game.height - 1>>).game
         = game

\* C13: reveal of a coordinate of the field whose cell is Revealed or Flagged
\* returns an Ok result (GameOver, Continue or Win, not InvalidCoords) and
\* changes neither any cell nor the mines.
C13_RevealOfShownOrFlaggedIsNoOp ==
    \A at \in Board :
        LET outcome == reveal(game, at)
        IN  (IsRevealedAt(game, at) \/ Cell(game, at).tag = "Flagged")
            => /\ outcome.res \in {"GameOver", "Continue", "Win"}
               /\ outcome.game.cells = game.cells
               /\ outcome.game.mines = game.mines

\* after a reveal, a flagged cell without a mine has hidden cells without
\* mines next to it, and a reveal of it, like one of a revealed cell, is
\* answered with Continue
C13_Witness ==
    /\ last = "reveal"
    /\ \E p, q \in Board :
         /\ Cell(game, p).tag = "Flagged" /\ ~MineOn(p)
         /\ Chebyshev(p, q) = 1 /\ Cell(game, q).tag = "Hidden" /\ ~MineOn(q)
         /\ reveal(game, p).res = "Continue"
    /\ \E p \in Board : IsRevealedAt(game, p) /\ reveal(game, p).res = "Continue"

\* C14: reveal of a coordinate of the field whose cell is Flagged leaves the
\* cell Flagged and returns Continue or Win, never GameOver, whether the
\* coordinate holds a mine or not.
C14_FlagBlocksDirectReveal ==
    \A at \in Board :
        LET outcome == reveal(game, at)
        IN  Cell(game, at).tag = "Flagged"
            => /\ Cell(outcome.game, at).tag = "Flagged"
               /\ outcome.res \in {"Continue", "Win"}

\* C15: no reveal changes the cell of a coordinate that holds a mine when the
\* call is made, whichever coordinate the call starts from.
C15_RevealNeverUncoversMine ==
    \A at \in Coords :
        LET after == reveal(game, at).game
        IN  \A p \in Board : MineOn(p) => Cell(after, p) = Cell(game, p)

\* a reveal has cascaded from a cell with no mine around it up to the cells
\* next to a mine, and the mine is still hidden
C15_Witness ==
    /\ last = "reveal"
    /\ \E p, q, r \in Board :
         /\ Cell(game, p) = [tag |-> "Revealed", n |-> 0]
         /\ Chebyshev(p, q) = 1 /\ IsRevealedAt(game, q) /\ Cell(game, q).n >= 1
         /\ Chebyshev(q, r) = 1 /\ MineOn(r) /\ Cell(game, r).tag = "Hidden"

\* C16: in every Game that Game::new or Game::empty has returned, and after
\* every sequence of place_mine, toggle_flag and reveal calls on it, each
\* entry of mines occurs once and is a coordinate of the field, so that
\* mine_count() is the number of mined coordinates and at most width * height.
C16_MinesAreDistinctAndOnField ==
    Constructed
    => /\ \A m \in BagToSet(game.mines) :
            /\ CopiesIn(m, game.mines) = 1
            /\ m[1] < game.width /\ m[2] < game.height
       /\ BagCardinality(game.mines) = Cardinality({p \in Board : MineOn(p)})
       /\ BagCardinality(game.mines) <= game.width * game.height

\* place_mine ran on a field of three or more cells that now has a mine on
\* every coordinate, and one more mine is refused everywhere
C16_Witness ==
    /\ Constructed
    /\ last = "place_mine"
    /\ game.width * game.height >= 3
    /\ BagCardinality(game.mines) = game.width * game.height
    /\ \A at \in Board : place_mine(game, at).res = "MineAlreadyAt"

\* C17: when the loop of floodfill_reveal has emptied the work list, taking
\* the entries in any order, every cell is as the same call leaves it when
\* the list is taken as a stack, and the RevealResult is the same.
C17_AnyOrderSameResult ==
    (Filling /\ Len(call.to_reveal) = 0)
    => /\ game.cells = call.by_stack.game.cells
       /\ game.mines = call.by_stack.game.mines
       /\ RevealOutcome(game) = call.by_stack.res

\* a fill that started next to a flag has ended on a field of four cells: it
\* revealed a cell with no mine around it and a cell next to a mine
C17_Witness ==
    /\ Filling /\ Len(call.to_reveal) = 0
    /\ game.width * game.height >= 4
    /\ \E p, q, r \in Board :
         /\ Cell(game, p) = [tag |-> "Revealed", n |-> 0]
         /\ Chebyshev(p, q) = 1 /\ IsRevealedAt(game, q) /\ Cell(game, q).n >= 1
         /\ Chebyshev(p, r) = 1 /\ Cell(game, r).tag = "Flagged"

\* the cells still Hidden, nine times, plus the length of the work list: a
\* turn of the loop that reveals a cell adds at most eight entries
FillRank(g, to_reveal) ==
    9 * Cardinality({i \in DOMAIN g.cells : g.cells[i].tag = "Hidden"})
        + Len(to_reveal)

\* C18: every flood fill ends with an empty work list; a turn of the loop
\* either turns one Hidden cell into a Revealed one, or changes no cell and
\* shortens the list by one entry.
C18_FloodfillTerminates ==
    /\ Filling ~> (Filling /\ Len(call.to_reveal) = 0)
    /\ [][(Filling /\ call'.fn = "floodfill_reveal")
            => /\ FillRank(game', call'.to_reveal) < FillRank(game, call.to_reveal)
               /\ \/ /\ game'.cells = game.cells
                     /\ Len(call'.to_reveal) = Len(call.to_reveal) - 1
                  \/ \E i \in DOMAIN game.cells :
                       /\ game.cells[i].tag = "Hidden"
                       /\ game'.cells[i].tag = "Revealed"
                       /\ \A j \in DOMAIN game.cells \ {i} :
                            game'.cells[j] = game.cells[j]]_vars

\* a fill has ended on a field of four cells that are all Revealed(0): thirty
\* two entries were pushed for four cells to reveal
C18_Witness ==
    /\ Filling /\ Len(call.to_reveal) = 0
    /\ game.width * game.height >= 4
    /\ \A p \in Board : Cell(game, p) = [tag |-> "Revealed", n |-> 0]

\* C19: every entry of the work list is a coordinate of the field; the fill
\* runs only on a field with width >= 1 and height >= 1; and each of the
\* eight coordinates pushed for a cell is on the field and is that cell or a
\* cell at Chebyshev distance 1 from it.
C19_WorkListOnField ==
    /\ Filling
       => /\ game.width >= 1 /\ game.height >= 1
          /\ \A i \in 1..Len(call.to_reveal) :
               /\ call.to_reveal[i] \in Board
               /\ \/ Len(call.to_reveal) = 1
                  \/ \E p \in Board :
                       /\ Cell(game, p) = [tag |-> "Revealed", n |-> 0]
                       /\ Chebyshev(p, call.to_reveal[i]) <= 1
    /\ \A p \in Board :
         LET pushed == Pushes(game, p[1], p[2])
         IN  /\ Len(pushed) = 8
             /\ \A k \in 1..8 : pushed[k] \in Board /\ Chebyshev(p, pushed[k]) <= 1

\* a fill is under way on a field one cell wide and three or more high, with
\* the eight entries pushed for its first cell on the list
C19_Witness ==
    /\ Filling
    /\ game.width = 1 /\ game.height >= 3
    /\ Len(call.to_reveal) >= 8
    /\ \E i, j \in 1..Len(call.to_reveal) : i # j /\ call.to_reveal[i] = call.to_reveal[j]

\* no coordinate of Game g holds a mine under a Revealed cell
NoMineRevealed(g) ==
    \A i \in DOMAIN g.cells :
        g.cells[i].tag = "Revealed"
        => CopiesIn(<<i % g.width, i \div g.width>>, g.mines) = 0

\* the cells of Game g that are Hidden or Flagged are no fewer than its mines
MinesFitUnrevealed(g) ==
    Cardinality({i \in DOMAIN g.cells : g.cells[i].tag # "Revealed"})
        >= BagCardinality(g.mines)

\* C20 as stated: in every state reached by any interleaving of place_mine,
\* toggle_flag and reveal calls, no coordinate is both in mines and Revealed,
\* and the Hidden or Flagged cells are no fewer than mine_count().
C20_NoMineIsRevealed == NoMineRevealed(game) /\ MinesFitUnrevealed(game)

\* C20 amended: a call other than a place_mine on a Revealed coordinate keeps
\* it true that no coordinate is both in mines and Revealed and that the
\* Hidden or Flagged cells are no fewer than mine_count(); so both hold in
\* every state reached without such a place_mine.
C20_NoMineIsRevealedUnlessPlacedThere ==
    [][(/\ NoMineRevealed(game)
        /\ ~\E i \in DOMAIN game.cells :
              /\ game.cells[i].tag = "Revealed"
              /\ CopiesIn(<<i % game.width, i \div game.width>>, game'.mines) > 0)
       => (NoMineRevealed(game') /\ MinesFitUnrevealed(game'))]_vars

\* after reveals, a mine was placed on a cell that was not revealed, next to a
\* revealed cell whose count is now one short; no mine lies under a revealed
\* cell
C20_Witness ==
    /\ last = "place_mine"
    /\ NoMineRevealed(game)
    /\ \E p, q \in Board :
         /\ MineOn(p) /\ Chebyshev(p, q) = 1
         /\ IsRevealedAt(game, q)
         /\ Cell(game, q).n <
              Cardinality({r \in Board : Chebyshev(q, r) = 1 /\ MineOn(r)})

====
